---- MODULE Spec2Model ----
(***************************************************************************)
(* Runtime supervisor of gcottom/aegisx: services/executer/service.go and  *)
(* the dynamic proxy table.  There is one runtime record per               *)
(* PrepareRuntime, one attempt (evaluation goroutine, log scanner,         *)
(* watchdog) per ExecuteRuntime, and one thread per NewExecution call and  *)
(* per HandleRuntimeFailure invocation.                                    *)
(*                                                                         *)
(* Granularity: a goroutine runs without interruption from one blocking    *)
(* operation to the next (an LLM request, an evaluation, a sleep, an HTTP  *)
(* request, a disk write, the start of a goroutine).  Sleeps are untimed:  *)
(* a sleeping goroutine may resume at any later step.                      *)
(***************************************************************************)
EXTENDS Integers, FiniteSets, Sequences, TLC

\* ---------------------------------------------------------------- bounds
concurrency == 2   \* candidates of one speculative launch (the code starts 5)
RetryLimit == 1    \* ExecuterService.RetryLimit (the server is built with 5)
MaxAtt == 3        \* ExecuteRuntime calls per runtime id
MaxRec == 2        \* PrepareRuntime records per runtime id
MaxLaunchFaults == 1  \* failures within one speculative launch
MaxFaults == 2     \* failures, program exits and administrative stops over one run
MaxCalls == 5      \* RegisterReverseProxy and DeregisterReverseProxy calls over one run
MaxLines == 3      \* lines of a log text given to ExtractPort

Ids == 1..concurrency
Atts == 1..MaxAtt
RecIx == 1..MaxRec

\* ---------------------------------------------------------------- state
VARIABLES
    registry,       \* s.Runtimes: id -> index of the stored record, 0 = absent
    recs,           \* the heap of models.Runtime objects, per id
    activeRetries,  \* s.ActiveRetries: ids whose single-flight flag is set
    proxyMap,       \* DynamicRouteService.ProxyMap: ids with a proxy
    router,         \* ids with a /runtime/<id>/*any route on the published router
    thr,            \* id -> thread -> [pc, rec]: NewExecution and HandleRuntimeFailure calls
    att,            \* id -> attempt -> the goroutines started by one ExecuteRuntime
    ctxDone,        \* id -> the supervising context of that runtime is cancelled
    stop,           \* id -> the StopRuntime call made on that id by a caller
    launch,         \* the NewConcurrentExecution call: pc, results channel, locals
    faults,         \* failures, program exits and administrative stops so far
    dyn,            \* DynamicRouteService step by step: router objects, s.Router,
                    \* the switcher's current router, the calls in progress
    beacon          \* one util.ExtractPort call: the log text, the call's return

vars == <<registry, recs, activeRetries, proxyMap, router, thr, att, ctxDone, stop, launch,
          faults, dyn, beacon>>

\* The prompt the user submitted.  A prompt is counted by the number of CreatePrompt
\* templates wrapped around the user's text.
UserPrompt == 0

\* CreatePrompt(prompt, id): the program-generation template with prompt embedded.
CreatePrompt(prompt) == prompt + 1

\* models.Runtime, the fields the supervisor reads and writes.
\* gen numbers the (Code, Executer, Logs) triple, replaced together on rebuild;
\* validated tells whether the validator has accepted the current Code; prompt is
\* the Prompt field; shutdown tells whether Shutdown() has been evaluated on the
\* current Executer.
NoRuntime ==
    [state |-> "none", lastErrorMsg |-> "", rebuildCount |-> 0, gen |-> 0,
     logs |-> "empty", stopFunction |-> 0, port |-> 0, passedHealthCheck |-> FALSE,
     validated |-> FALSE, prompt |-> UserPrompt, shutdown |-> FALSE]

\* PrepareRuntime with models.RSRDY ("ready") in place of models.RSINIT.
NewRuntimeReady ==
    [state |-> "ready", lastErrorMsg |-> "", rebuildCount |-> 0, gen |-> 1,
     logs |-> "empty", stopFunction |-> 0, port |-> 0, passedHealthCheck |-> FALSE,
     validated |-> FALSE, prompt |-> UserPrompt, shutdown |-> FALSE]

\* The record PrepareRuntime builds.
NewRuntime ==
    [state |-> "initializing", lastErrorMsg |-> "", rebuildCount |-> 0, gen |-> 1,
     logs |-> "empty", stopFunction |-> 0, port |-> 0, passedHealthCheck |-> FALSE,
     validated |-> FALSE, prompt |-> UserPrompt, shutdown |-> FALSE]

\* Threads: the NewExecution call, and the HandleRuntimeFailure invocations made by
\* the deferred completion handler ("ev"), the watchdog ("wd") and the log scanner
\* ("sc") of an attempt, and by PrepareRuntime's validation failure ("pr") of a record.
Threads ==
    {<<"new", 0>>} \cup ({"ev", "wd", "sc"} \X Atts) \cup ({"pr"} \X RecIx)

IsHRF(t) == t[1] # "new"

NoThread == [pc |-> "idle", rec |-> 0]

\* The goroutines of one ExecuteRuntime call and the variables they share.
NoAttempt ==
    [rec |-> 0, gen |-> 0, cancelled |-> FALSE, ev |-> "unused",
     isRegistered |-> FALSE, sc |-> "idle", wd |-> "idle", wrec |-> 0]

NoStop == [pc |-> "idle", rec |-> 0]

NoLaunch ==
    [pc |-> "off", results |-> <<>>, runtimes |-> <<>>, snap |-> [id \in Ids |-> <<>>],
     todo |-> <<>>, winner |-> 0, nrecv |-> 0, ret |-> "none"]

\* The DynamicRouteService as NewServer builds it: one gin engine, which is both
\* s.Router (Router) and the switcher's current router (current); no proxy call in
\* progress. routers[i] is the set of ids with a /runtime/<id>/*any route on the i-th
\* engine created; gone is the set of ids whose last call was a Deregister that has
\* returned.
NoDyn ==
    [routers |-> <<{}>>, Router |-> 1, current |-> 1,
     call |-> [id \in Ids |-> [pc |-> "idle", newRouter |-> 0]],
     gone |-> {}, ncalls |-> 0, panicked |-> FALSE]

\* Goroutines that can only end without effect are taken as ended: the watchdog
\* once isRegistered is set (it is never cleared), the scanner between two passes
\* once execDone has been sent or ctx2 is cancelled (its select then returns).
\* Values no goroutine of the attempt can read any more are reset, so that states
\* that differ only in them coincide: the interpreter once the program has printed
\* its beacon or returned, isRegistered once scanner and watchdog have read it for
\* the last time, the record once all three goroutines are over.
Settle(a) ==
    LET wd == IF a.wd = "sleep" /\ a.isRegistered THEN "done" ELSE a.wd
        sc == IF a.sc = "top" /\ (a.ev = "handled" \/ a.cancelled) THEN "done" ELSE a.sc
        over == a.ev = "handled" /\ sc = "done" /\ wd = "done"
    IN [a EXCEPT !.wd = wd,
                 !.sc = sc,
                 !.gen = IF a.ev = "running" THEN @ ELSE 0,
                 !.isRegistered = IF sc = "done" /\ wd # "sleep" THEN FALSE ELSE @,
                 !.rec = IF over THEN 0 ELSE @]

Canon(tbl) == [id \in DOMAIN tbl |-> [k \in DOMAIN tbl[id] |-> Settle(tbl[id][k])]]

\* The part of the state the supervisor's functions work on, as one value: the
\* functions below map it to the value after they have run.
Shared ==
    [registry |-> registry, recs |-> recs, activeRetries |-> activeRetries,
     proxyMap |-> proxyMap, router |-> router, thr |-> thr, att |-> att]

Install(s) ==
    /\ registry' = s.registry
    /\ recs' = s.recs
    /\ activeRetries' = s.activeRetries
    /\ proxyMap' = s.proxyMap
    /\ router' = s.router
    /\ thr' = s.thr
    /\ att' = Canon(s.att)
    /\ UNCHANGED <<dyn, beacon>>

NumAtt(s, id) == Cardinality({k \in Atts : s.att[id][k].ev # "unused"})
NumRec(s, id) == Cardinality({r \in RecIx : s.recs[id][r].state # "none"})

\* The record the registry holds for id (GetRuntime), NoRuntime when absent.
Runtime(id) == IF registry[id] = 0 THEN NoRuntime ELSE recs[id][registry[id]]

\* s.Runtimes.Store(runtimeID, runtimeData)
Store(s, id, r) == [s EXCEPT !.registry[id] = r]

\* ------------------------------------------------------------ proxy table
\* RegisterReverseProxy: store the proxy, add the route to the current router.
RegisterReverseProxy(s, id) ==
    [s EXCEPT !.proxyMap = @ \cup {id}, !.router = @ \cup {id}]

\* DeregisterReverseProxy: nothing when the id has no proxy; otherwise delete it and
\* publish a router rebuilt from the remaining proxies.
DeregisterReverseProxy(s, id) ==
    IF id \notin s.proxyMap THEN s
    ELSE [s EXCEPT !.proxyMap = @ \ {id}, !.router = s.proxyMap \ {id}]

\* ------------------------------------------------------ the fault budget
\* A failure, a program ending on its own or an administrative stop occurs, while
\* the budget lasts.
Fault == faults < MaxFaults /\ faults' = faults + 1

\* SendMessage(ctx, ...) fails: because ctx is cancelled, or by a fault of its own.
LLMError(id) == IF ctxDone[id] THEN UNCHANGED faults ELSE Fault

\* No ExtractPort call under study: an empty text, nothing returned.
NoBeacon == [logs |-> <<>>, called |-> FALSE, port |-> 0]

\* ------------------------------------------------------------------ Init
InitCommon ==
    /\ registry = [id \in Ids |-> 0]
    /\ recs = [id \in Ids |-> [r \in RecIx |-> NoRuntime]]
    /\ activeRetries = {}
    /\ proxyMap = {}
    /\ router = {}
    /\ ctxDone = [id \in Ids |-> FALSE]
    /\ att = [id \in Ids |-> [k \in Atts |-> NoAttempt]]
    /\ stop = [id \in Ids |-> NoStop]
    /\ dyn = NoDyn

\* One NewExecution(ctx, prompt) call with a context that is never cancelled.
Init ==
    /\ InitCommon
    /\ thr = [id \in Ids |-> [t \in Threads |->
                IF id = 1 /\ t = <<"new", 0>> THEN [pc |-> "prep_gpt", rec |-> 0]
                ELSE NoThread]]
    /\ launch = NoLaunch
    /\ faults = 0
    /\ beacon = NoBeacon

\* ---------------------------------------------------------- ExecuteRuntime
\* The attempt ExecuteRuntime starts: the evaluation goroutine, in
\* EvalWithContext(ctx2, Code) on the record's interpreter, with its log scanner and
\* its watchdog; they share ctx2/cancel and isRegistered.
NewAttempt(rt, r) ==
    [rec |-> r, gen |-> rt.gen, cancelled |-> FALSE, ev |-> "running",
     isRegistered |-> FALSE, sc |-> "top", wd |-> "sleep", wrec |-> 0]

\* ExecuteRuntime: load the record, set state running, install the new cancel as
\* StopFunction, store, start the goroutines.
ExecuteRuntime(s, id) ==
    LET r == s.registry[id]
        k == NumAtt(s, id) + 1
    IN [s EXCEPT !.recs[id][r].state = "running",
                 !.recs[id][r].stopFunction = k,
                 !.att[id][k] = NewAttempt(s.recs[id][r], r)]

\* The call of thread t is over.  When it is the HandleRuntimeFailure call of a
\* deferred completion handler, the handler goes on to its last statement, cancel().
Leave(s, id, t) ==
    IF t[1] = "ev"
    THEN [s EXCEPT !.thr[id][t] = NoThread, !.att[id][t[2]].cancelled = TRUE]
    ELSE [s EXCEPT !.thr[id][t] = NoThread]

\* The return without the deferred ActiveRetries.Delete.
ReturnKeepingFlag(s, id, t) == Leave(s, id, t)

\* The thread returns from NewExecution or HandleRuntimeFailure.  The deferred
\* ActiveRetries.Delete of HandleRuntimeFailure clears the flag.
Return(s, id, t) ==
    [Leave(s, id, t) EXCEPT !.activeRetries = IF IsHRF(t) THEN @ \ {id} ELSE @]

\* NewExecution has succeeded: a direct call returns the id; a candidate goroutine
\* of NewConcurrentExecution goes on to append the id and wait.
Executed(s, id, t) ==
    IF t[1] = "new" /\ launch.pc # "off"
    THEN [s EXCEPT !.thr[id][t] = [pc |-> "append", rec |-> 0]]
    ELSE Return(s, id, t)

\* The candidate goroutine reads the shared slice runtimes for its append; the
\* write is a later step, so that two appends can overlap.  Once the launcher has
\* taken its copy of the slice nothing reads it again.
ReadRuntimes(l, id, t) ==
    IF t[1] = "new" /\ l.pc = "recv" THEN [l EXCEPT !.snap[id] = l.runtimes] ELSE l

\* results <- result{runtimeID, err}: the channel has room for every candidate; an
\* error carries no id.  Once the launcher has stopped receiving nothing reads the
\* channel again.
Send(l, id, ok) ==
    IF l.pc = "recv"
    THEN [l EXCEPT !.results = Append(@, [cand |-> IF ok THEN id ELSE 0, ok |-> ok])]
    ELSE l

\* A candidate goroutine of NewConcurrentExecution sends result{"", err} when
\* NewExecution fails; a direct NewExecution call just returns the error.
SendError(l, id, t) == IF t[1] = "new" THEN Send(l, id, FALSE) ELSE l

\* runtimeData.Executer.Eval("Shutdown()") on record r of id: the program's exported
\* Shutdown function is called on the record's interpreter.  Nothing happens without
\* a record.
Shutdown(s, id, r) == IF r = 0 THEN s ELSE [s EXCEPT !.recs[id][r].shutdown = TRUE]

\* ---------------------------------------------------- HandleRuntimeFailure
\* ActiveRetries.Store in place of LoadOrStore: the flag is set but never tested.
StoreOnly(ar, id) == [loaded |-> FALSE, map |-> ar \cup {id}]

\* The test-and-set: ActiveRetries.LoadOrStore(runtimeID, true).
LoadOrStore(ar, id) == [loaded |-> id \in ar, map |-> ar \cup {id}]

\* The retry-limit test of HandleRuntimeFailure.
AtRetryLimitOffByOne(rt) == rt.rebuildCount > RetryLimit

AtRetryLimit(rt) == rt.rebuildCount >= RetryLimit

\* The parent-context check skipped: the select always takes its default case.
ParentContextNeverDone(id) == FALSE

\* select { case <-ctx.Done(): return ...; default: } on the caller's context.
ParentContextDone(id) == ctxDone[id]

\* HandleRuntimeFailure up to its LLM request.  Return at once when the flag was
\* already set.  With the flag: return when the parent context is done or the record
\* is missing; at the retry limit set state failed, store, deregister and enter
\* PrepareRuntime; otherwise increment RebuildCount, call Shutdown(), deregister and
\* request corrected code.
HandleRuntimeFailure(s, id, t) ==
    LET res == LoadOrStore(s.activeRetries, id)
        r == s.registry[id]
        held == [s EXCEPT !.activeRetries = res.map]
    IN IF res.loaded THEN Leave(s, id, t)
       ELSE IF ParentContextDone(id) \/ r = 0 THEN Return(held, id, t)
       ELSE IF AtRetryLimit(s.recs[id][r])
       THEN DeregisterReverseProxy(
                [Store(held, id, r) EXCEPT !.recs[id][r].state = "failed",
                                           !.thr[id][t] = [pc |-> "prep_gpt", rec |-> r]], id)
       ELSE DeregisterReverseProxy(
                [Shutdown(held, id, r) EXCEPT !.recs[id][r].rebuildCount = @ + 1,
                                              !.thr[id][t] = [pc |-> "gpt", rec |-> r]], id)

\* go s.HandleRuntimeFailure(ctx, id): the goroutine starts to run.
HandleRuntimeFailureStart(id, t) ==
    /\ thr[id][t].pc = "start"
    /\ Install(HandleRuntimeFailure(Shared, id, t))
    /\ UNCHANGED <<ctxDone, stop, launch, faults>>

\* The rebuild with LastErrorMsg left as it was.
RebuiltKeepingError(rt) ==
    [rt EXCEPT !.gen = @ + 1, !.validated = FALSE, !.shutdown = FALSE, !.logs = "empty",
               !.state = "rebuilding"]

\* The record after the rebuild's assignments: the corrected code on a new
\* interpreter with a new log buffer (not validated), state rebuilding, LastErrorMsg
\* cleared.
Rebuilt(rt) ==
    [rt EXCEPT !.gen = @ + 1, !.validated = FALSE, !.shutdown = FALSE, !.logs = "empty",
               !.state = "rebuilding", !.lastErrorMsg = ""]

\* HandleRuntimeFailure after the LLM request: on error return; otherwise install the
\* new code, interpreter and log buffer, set state rebuilding, clear LastErrorMsg and
\* store the record.
HandleRuntimeFailureRebuild(id, t) ==
    /\ thr[id][t].pc = "gpt"
    /\ LET r == thr[id][t].rec IN
       \E ok \in BOOLEAN :
         IF ok
         THEN /\ ~ctxDone[id]
              /\ NumAtt(Shared, id) < MaxAtt
              /\ Install(Store([Shared EXCEPT !.recs[id][r] = Rebuilt(@),
                                             !.thr[id][t] = [pc |-> "exec", rec |-> 0]],
                               id, r))
              /\ UNCHANGED faults
         ELSE /\ LLMError(id)
              /\ Install(Return(Shared, id, t))
    /\ UNCHANGED <<ctxDone, stop, launch>>

\* HandleRuntimeFailure's last statement: return s.ExecuteRuntime(ctx, runtimeID).
HandleRuntimeFailureExecute(id, t) ==
    /\ thr[id][t].pc = "exec"
    /\ registry[id] # 0
    /\ NumAtt(Shared, id) < MaxAtt
    /\ Install(Return(ExecuteRuntime(Shared, id), id, t))
    /\ UNCHANGED <<ctxDone, stop, launch, faults>>

\* ---------------------------------------------------------- PrepareRuntime
\* The prompt argument of the PrepareRuntime call of thread t: the user's prompt from
\* NewExecution, runtimeData.Prompt from the retry-limit branch of
\* HandleRuntimeFailure.
PromptArgument(id, t) ==
    IF thr[id][t].rec = 0 THEN UserPrompt ELSE recs[id][thr[id][t].rec].prompt

\* PrepareRuntime up to storing the record: wrap the prompt (prompt = CreatePrompt(
\* prompt, id)); on an LLM error return without a record; otherwise build the record
\* in state initializing, with the wrapped prompt as Prompt, and store it under the
\* id.
PrepareRuntimeLLM(id, t) ==
    /\ thr[id][t].pc = "prep_gpt"
    /\ \E ok \in BOOLEAN :
         IF ok
         THEN /\ ~ctxDone[id]
              /\ NumRec(Shared, id) < MaxRec
              /\ NumAtt(Shared, id) < MaxAtt
              /\ LET n == NumRec(Shared, id) + 1 IN
                   Install(Store([Shared EXCEPT !.recs[id][n] =
                                                    [NewRuntime EXCEPT !.prompt =
                                                        CreatePrompt(PromptArgument(id, t))],
                                                !.thr[id][t] = [pc |-> "prep_val", rec |-> n]],
                                 id, n))
              /\ UNCHANGED <<launch, faults>>
         ELSE /\ LLMError(id)
              /\ Install(Return(Shared, id, t))
              /\ launch' = SendError(launch, id, t)
    /\ UNCHANGED <<ctxDone, stop>>

\* PrepareRuntime's validation.  On failure record the error, set state error, store,
\* start HandleRuntimeFailure in a goroutine and return the error.  On success
\* PrepareRuntime returns the id and the caller (NewExecution or the retry-limit
\* branch of HandleRuntimeFailure) calls ExecuteRuntime and returns.
PrepareRuntimeValidate(id, t) ==
    /\ thr[id][t].pc = "prep_val"
    /\ LET r == thr[id][t].rec IN
       \E valid \in BOOLEAN :
         IF valid
         THEN /\ registry[id] # 0
              /\ NumAtt(Shared, id) < MaxAtt
              /\ Install(Executed(
                    ExecuteRuntime([Shared EXCEPT !.recs[id][r].validated = TRUE], id),
                    id, t))
              /\ launch' = ReadRuntimes(launch, id, t)
              /\ UNCHANGED faults
         ELSE /\ Fault
              /\ Install(Return(
                    Store([Shared EXCEPT
                             !.recs[id][r].lastErrorMsg = "code validation failed",
                             !.recs[id][r].state = "error",
                             !.thr[id][<<"pr", r>>] = [pc |-> "start", rec |-> 0]],
                          id, r),
                    id, t))
              /\ launch' = SendError(launch, id, t)
    /\ UNCHANGED <<ctxDone, stop>>

\* ------------------------------------------------ the evaluation goroutine
\* The generated program prints its PORT=<n> beacon, once, to the log buffer its
\* interpreter was built with; a replaced interpreter's buffer is no longer read.
ChildLogPort(id, k) ==
    /\ att[id][k].ev = "running"
    /\ LET a == att[id][k] IN
         Install([Shared EXCEPT
                    !.att[id][k].ev = "logged",
                    !.recs[id][a.rec].logs =
                        IF recs[id][a.rec].gen = a.gen THEN "port" ELSE @])
    /\ UNCHANGED <<ctxDone, stop, launch, faults>>

\* The value of err the deferred handler reads.  EvalWithContext returns "context
\* canceled" once ctx2 is cancelled, otherwise nil (main returned) or an error (a
\* panic is turned into one).  The watchdog assigns the same variable without
\* synchronisation when its StopRuntime returns, so its error may be the one read.
EvalOutcomes(a) ==
    IF a.cancelled
    THEN {"context canceled"}
            \cup (IF a.wd = "drain" THEN {"runtime never logged a port"} ELSE {})
    ELSE {"nil", "error"}

\* The deferred completion handler: a real error is recorded, state error is stored
\* and HandleRuntimeFailure is called; otherwise state finished is stored.  The
\* attempt's cancel() follows on both paths, on the first one when
\* HandleRuntimeFailure has returned.
CompletionHandler(s, id, k, err) ==
    LET r == s.att[id][k].rec
        over == [s EXCEPT !.att[id][k].ev = "handled"]
    IN IF err # "nil" /\ err # "context canceled"
       THEN HandleRuntimeFailure(
                Store([over EXCEPT !.recs[id][r].lastErrorMsg = err,
                                   !.recs[id][r].state = "error"], id, r),
                id, <<"ev", k>>)
       ELSE Store([over EXCEPT !.recs[id][r].state = "finished",
                               !.att[id][k].cancelled = TRUE], id, r)

\* EvalWithContext returns; err is sent on execDone and the deferred handler runs.
EvalReturn(id, k) ==
    /\ att[id][k].ev \in {"running", "logged"}
    /\ \E err \in EvalOutcomes(att[id][k]) :
         /\ Install(CompletionHandler(Shared, id, k, err))
         /\ IF err = "context canceled" THEN UNCHANGED faults ELSE Fault
    /\ UNCHANGED <<ctxDone, stop, launch>>

\* ------------------------------------------------------------ log scanner
\* util.ExtractPort on the abstract buffer: positive exactly when the beacon is there.
ExtractPort(logs) == IF logs = "port" THEN 1 ELSE 0

\* Some evaluation may still print to the record's current log buffer.  Only then does
\* it matter that the scanner's two reads of the buffer are separate steps.
MayLog(id, r) ==
    \E k \in Atts : /\ att[id][k].ev = "running"
                    /\ att[id][k].rec = r
                    /\ att[id][k].gen = recs[id][r].gen

\* One pass of the scanner's select with neither execDone nor ctx2.Done ready: read
\* the buffer.  With a port and not yet registered: set Port, Reset the buffer, set
\* state running, store, RegisterReverseProxy, isRegistered = true, and sleep.
\* Otherwise go on to forward the lines.
ScannerPoll(id, k) ==
    /\ att[id][k].sc = "top"
    /\ LET a == att[id][k]
           r == a.rec
       IN IF ExtractPort(recs[id][r].logs) > 0 /\ ~a.isRegistered
          THEN Install(RegisterReverseProxy(
                  Store([Shared EXCEPT !.recs[id][r].port = ExtractPort(recs[id][r].logs),
                                       !.recs[id][r].logs = "empty",
                                       !.recs[id][r].state = "running",
                                       !.att[id][k].isRegistered = TRUE,
                                       !.att[id][k].sc = "settle"],
                        id, r),
                  id))
          ELSE IF MayLog(id, r)
          THEN Install([Shared EXCEPT !.att[id][k].sc = "forward"])
          ELSE Install([Shared EXCEPT !.recs[id][r].logs = "empty"])
    /\ UNCHANGED <<ctxDone, stop, launch, faults>>

\* The else branch: read the buffer again, forward its lines, Reset it.
ScannerForward(id, k) ==
    /\ att[id][k].sc = "forward"
    /\ Install([Shared EXCEPT !.recs[id][att[id][k].rec].logs = "empty",
                              !.att[id][k].sc = "top"])
    /\ UNCHANGED <<ctxDone, stop, launch, faults>>

\* util.RuntimeHealthCheck: GET /runtime/<id> through the published router; it can
\* answer 200 only over an active route to a program that is still being evaluated,
\* and the program may answer anything else.
RuntimeHealthCheck(s, id) ==
    IF id \in s.router /\ \E k \in Atts : s.att[id][k].ev \in {"running", "logged"}
    THEN {TRUE, FALSE}
    ELSE {FALSE}

\* After the settle sleep: the health check.  On failure record the error, set state
\* error, store, start HandleRuntimeFailure in a goroutine and cancel.
ScannerHealthCheck(id, k) ==
    /\ att[id][k].sc = "settle"
    /\ LET r == att[id][k].rec IN
       \E healthy \in RuntimeHealthCheck(Shared, id) :
         IF healthy
         THEN /\ Install([Shared EXCEPT !.att[id][k].sc = "passed"])
              /\ UNCHANGED faults
         ELSE /\ Fault
              /\ Install(Store([Shared EXCEPT
                    !.recs[id][r].lastErrorMsg = "runtime root endpoint was inaccessible",
                    !.recs[id][r].state = "error",
                    !.thr[id][<<"sc", k>>] = [pc |-> "start", rec |-> 0],
                    !.att[id][k].cancelled = TRUE,
                    !.att[id][k].sc = "top"], id, r))
    /\ UNCHANGED <<ctxDone, stop, launch>>

\* The health check has answered 200: PassedHealthCheck = true, store.
ScannerPassed(id, k) ==
    /\ att[id][k].sc = "passed"
    /\ LET r == att[id][k].rec IN
         Install(Store([Shared EXCEPT !.recs[id][r].passedHealthCheck = TRUE,
                                      !.att[id][k].sc = "top"], id, r))
    /\ UNCHANGED <<ctxDone, stop, launch, faults>>

\* -------------------------------------------------------------- StopRuntime
\* StopRuntime up to its sleep: (load the record,) call Shutdown(), deregister.
StopRuntimeHead(s, id) == DeregisterReverseProxy(Shutdown(s, id, s.registry[id]), id)

\* StopRuntime after its sleep, on the record r it loaded: StopFunction() cancels the
\* attempt whose cancel the record holds; state stopped; store.
StopRuntimeTail(s, id, r) ==
    LET k == s.recs[id][r].stopFunction
        c == IF k = 0 THEN s ELSE [s EXCEPT !.att[id][k].cancelled = TRUE]
    IN Store([c EXCEPT !.recs[id][r].state = "stopped"], id, r)

\* POST /stop/:id reaches StopRuntime.
StopRuntimeBegin(id) ==
    /\ launch.pc = "off"
    /\ stop[id].pc = "idle"
    /\ registry[id] # 0
    /\ Fault
    /\ stop' = [stop EXCEPT ![id] = [pc |-> "drain", rec |-> registry[id]]]
    /\ Install(StopRuntimeHead(Shared, id))
    /\ UNCHANGED <<ctxDone, launch>>

\* StopRuntime returns.
StopRuntimeEnd(id) ==
    /\ launch.pc = "off"
    /\ stop[id].pc = "drain"
    /\ Install(StopRuntimeTail(Shared, id, stop[id].rec))
    /\ stop' = [stop EXCEPT ![id] = [pc |-> "done", rec |-> 0]]
    /\ UNCHANGED <<ctxDone, launch, faults>>

\* ----------------------------------------------------------------- watchdog
\* After the 45 s sleep with isRegistered still false: cancel() and StopRuntime up
\* to its sleep.
WatchdogFire(id, k) ==
    /\ att[id][k].wd = "sleep"
    /\ ~att[id][k].isRegistered
    /\ Fault
    /\ Install(StopRuntimeHead(
          [Shared EXCEPT !.att[id][k].wd = "drain",
                         !.att[id][k].cancelled = TRUE,
                         !.att[id][k].wrec = registry[id]], id))
    /\ UNCHANGED <<ctxDone, stop, launch>>

\* The watchdog's StopRuntime returns; the watchdog records "runtime never logged a
\* port" on its attempt's record, sets state error, stores and calls
\* HandleRuntimeFailure.
WatchdogTimeout(id, k) ==
    /\ att[id][k].wd = "drain"
    /\ LET a == att[id][k]
           stopped == StopRuntimeTail(Shared, id, a.wrec)
       IN Install(HandleRuntimeFailure(
             Store([stopped EXCEPT
                      !.recs[id][a.rec].lastErrorMsg = "runtime never logged a port",
                      !.recs[id][a.rec].state = "error",
                      !.att[id][k].wd = "done",
                      !.att[id][k].wrec = 0], id, a.rec),
             id, <<"wd", k>>))
    /\ UNCHANGED <<ctxDone, stop, launch, faults>>

\* --------------------------------------------------- NewConcurrentExecution
\* A launch of NewConcurrentExecution: every candidate goroutine is in NewExecution
\* under its own context and the launcher waits on the results channel.
InitLaunch ==
    /\ InitCommon
    /\ thr = [id \in Ids |-> [t \in Threads |->
                IF t = <<"new", 0>> THEN [pc |-> "prep_gpt", rec |-> 0] ELSE NoThread]]
    /\ launch = [NoLaunch EXCEPT !.pc = "recv"]
    /\ faults = MaxFaults - MaxLaunchFaults
    /\ beacon = NoBeacon

\* runtimes = append(runtimes, runtimeID): the write of the append, over the slice
\* the goroutine has read.
AppendRuntimes(id) ==
    /\ thr[id][<<"new", 0>>].pc = "append"
    /\ thr' = [thr EXCEPT ![id][<<"new", 0>>] = [pc |-> "wait", rec |-> 0]]
    /\ launch' = IF launch.pc = "recv"
                 THEN [launch EXCEPT !.runtimes = Append(launch.snap[id], id),
                                     !.snap[id] = <<>>]
                 ELSE launch
    /\ UNCHANGED <<registry, recs, activeRetries, proxyMap, router, att, ctxDone, stop,
                   faults, dyn, beacon>>

\* What one round of waitForPassedHealthCheck's select can return: an error when
\* the context is done; on a tick nil when PassedHealthCheck is set, else an error
\* when the state is error or failed, else nothing (the loop goes on).
WaitOutcomes(rt, done) ==
    (IF done THEN {FALSE} ELSE {})
       \cup (IF rt.passedHealthCheck THEN {TRUE}
             ELSE IF rt.state \in {"error", "failed"} THEN {FALSE}
             ELSE {})

\* waitForPassedHealthCheck returns and the candidate goroutine sends its result.
waitForPassedHealthCheck(id) ==
    /\ thr[id][<<"new", 0>>].pc = "wait"
    /\ \E ok \in WaitOutcomes(Runtime(id), ctxDone[id]) :
         launch' = Send(launch, id, ok)
    /\ thr' = [thr EXCEPT ![id][<<"new", 0>>] = NoThread]
    /\ UNCHANGED <<registry, recs, activeRetries, proxyMap, router, att, ctxDone, stop,
                   faults, dyn, beacon>>

\* util.RemoveItem: the slice without the first occurrence of item.
RECURSIVE RemoveItem(_, _)
RemoveItem(slice, item) ==
    IF slice = <<>> THEN <<>>
    ELSE IF Head(slice) = item THEN Tail(slice)
    ELSE <<Head(slice)>> \o RemoveItem(Tail(slice), item)

\* The launcher receives a result.  On the first success it cancels every
\* candidate's context and takes the slice runtimes without the winner; on the
\* last of concurrency errors it returns the error.
LaunchReceive ==
    /\ launch.pc = "recv"
    /\ launch.results # <<>>
    /\ LET res == Head(launch.results)
           todo == RemoveItem(launch.runtimes, res.cand)
       IN IF res.ok
          THEN /\ ctxDone' = [id \in Ids |-> TRUE]
               /\ launch' = [NoLaunch EXCEPT
                                !.pc = IF todo = <<>> THEN "title" ELSE "stop",
                                !.todo = todo,
                                !.winner = res.cand]
          ELSE /\ launch' = IF launch.nrecv + 1 = concurrency
                            THEN [NoLaunch EXCEPT !.pc = "returned", !.ret = "error"]
                            ELSE [launch EXCEPT !.results = Tail(@), !.nrecv = @ + 1]
               /\ UNCHANGED ctxDone
    /\ UNCHANGED <<registry, recs, activeRetries, proxyMap, router, thr, att, stop, faults,
                   dyn, beacon>>

\* The launcher calls StopRuntime on the next other candidate of its slice.
LaunchStopBegin ==
    /\ launch.pc = "stop"
    /\ LET id == Head(launch.todo) IN
         /\ stop' = [stop EXCEPT ![id] = [pc |-> "drain", rec |-> registry[id]]]
         /\ Install(StopRuntimeHead(Shared, id))
    /\ launch' = [launch EXCEPT !.pc = "stopping"]
    /\ UNCHANGED <<ctxDone, faults>>

\* That StopRuntime returns and the launcher deregisters the candidate's route.
LaunchStopEnd ==
    /\ launch.pc = "stopping"
    /\ LET id == Head(launch.todo) IN
         /\ stop' = [stop EXCEPT ![id] = [pc |-> "done", rec |-> 0]]
         /\ Install(DeregisterReverseProxy(StopRuntimeTail(Shared, id, stop[id].rec), id))
    /\ launch' = [launch EXCEPT !.pc = IF Tail(launch.todo) = <<>> THEN "title" ELSE "stop",
                                !.todo = Tail(@)]
    /\ UNCHANGED <<ctxDone, faults>>

\* The title request under the caller's context, and the return: the winner's id, or
\* the error of the title request.
LaunchTitle ==
    /\ launch.pc = "title"
    /\ \E ok \in BOOLEAN :
         IF ok
         THEN /\ launch' = [launch EXCEPT !.pc = "returned", !.ret = "winner"]
              /\ UNCHANGED faults
         ELSE /\ Fault
              /\ launch' = [launch EXCEPT !.pc = "returned", !.ret = "error"]
    /\ UNCHANGED <<registry, recs, activeRetries, proxyMap, router, thr, att, ctxDone, stop,
                   dyn, beacon>>

\* ------------------------------------------------------------------- Next
\* The steps of the goroutines that serve one runtime id.
RuntimeNext ==
    \/ \E id \in Ids, t \in Threads :
         \/ PrepareRuntimeLLM(id, t)
         \/ PrepareRuntimeValidate(id, t)
         \/ HandleRuntimeFailureStart(id, t)
         \/ HandleRuntimeFailureRebuild(id, t)
         \/ HandleRuntimeFailureExecute(id, t)
    \/ \E id \in Ids, k \in Atts :
         \/ ChildLogPort(id, k)
         \/ EvalReturn(id, k)
         \/ ScannerPoll(id, k)
         \/ ScannerForward(id, k)
         \/ ScannerHealthCheck(id, k)
         \/ ScannerPassed(id, k)
         \/ WatchdogFire(id, k)
         \/ WatchdogTimeout(id, k)

\* One runtime started by NewExecution, and POST /stop/:id.
Next ==
    \/ RuntimeNext
    \/ \E id \in Ids :
         \/ StopRuntimeBegin(id)
         \/ StopRuntimeEnd(id)

Spec == Init /\ [][Next]_vars

\* One POST /execute: NewConcurrentExecution and its candidates.
NextLaunch ==
    \/ RuntimeNext
    \/ \E id \in Ids :
         \/ AppendRuntimes(id)
         \/ waitForPassedHealthCheck(id)
    \/ LaunchReceive
    \/ LaunchStopBegin
    \/ LaunchStopEnd
    \/ LaunchTitle

SpecLaunch == InitLaunch /\ [][NextLaunch]_vars

\* The same launch at a later moment: the first LLM request of every candidate but
\* the first has failed and the launcher has received their errors; the failures
\* counted are those from here on.
InitLaunchLast ==
    /\ InitCommon
    /\ thr = [id \in Ids |-> [t \in Threads |->
                IF id = 1 /\ t = <<"new", 0>> THEN [pc |-> "prep_gpt", rec |-> 0]
                ELSE NoThread]]
    /\ launch = [NoLaunch EXCEPT !.pc = "recv", !.nrecv = concurrency - 1]
    /\ faults = 0
    /\ beacon = NoBeacon

\* With one candidate left the launcher has nobody else to stop.
NextLaunchLast ==
    \/ RuntimeNext
    \/ \E id \in Ids :
         \/ AppendRuntimes(id)
         \/ waitForPassedHealthCheck(id)
    \/ LaunchReceive
    \/ LaunchTitle

SpecLaunchLast == InitLaunchLast /\ [][NextLaunchLast]_vars

\* ------------------------------------------- the proxy table, step by step
\* RegisterReverseProxy and DeregisterReverseProxy hold no lock: ProxyMap is a
\* sync.Map, s.Router a plain field and the switcher's router an atomic.Value, so
\* calls for different ids interleave between any two of these accesses. The calls
\* for one id come one after the other.
InitProxy ==
    /\ InitCommon
    /\ thr = [id \in Ids |-> [t \in Threads |-> NoThread]]
    /\ launch = NoLaunch
    /\ faults = 0
    /\ beacon = NoBeacon

\* What a request through the switcher can be routed to: the routes of the
\* engine that current.Load() returns.
Published(d) == d.routers[d.current]

InstallProxy(map, d) ==
    /\ proxyMap' = map
    /\ dyn' = d
    /\ router' = Published(d)
    /\ UNCHANGED <<registry, recs, activeRetries, thr, att, ctxDone, stop, launch, faults,
                   beacon>>

CallStarts(id) ==
    /\ ~dyn.panicked
    /\ dyn.call[id].pc = "idle"
    /\ dyn.ncalls < MaxCalls

\* RegisterReverseProxy(id, port) up to s.ProxyMap.Store(id, proxy). The scanner
\* registers an id once per attempt, and every new attempt follows a Deregister.
RegisterStore(id) ==
    /\ CallStarts(id)
    /\ id \notin proxyMap
    /\ InstallProxy(proxyMap \cup {id},
                    [dyn EXCEPT !.call[id].pc = "any", !.gone = @ \ {id},
                                !.ncalls = @ + 1])

\* s.Router.Any("/runtime/<id>/*any", ...) on the engine s.Router points to now, and
\* the return. gin panics when that engine already has the route.
RegisterAny(id) ==
    /\ ~dyn.panicked
    /\ dyn.call[id].pc = "any"
    /\ IF id \in dyn.routers[dyn.Router]
       THEN InstallProxy(proxyMap, [dyn EXCEPT !.panicked = TRUE])
       ELSE InstallProxy(proxyMap,
                         [dyn EXCEPT !.routers[dyn.Router] = @ \cup {id},
                                     !.call[id].pc = "idle"])

\* DeregisterReverseProxy(id): the Load, the return when id has no entry, the
\* Delete.
DeregisterDelete(id) ==
    /\ CallStarts(id)
    /\ IF id \notin proxyMap
       THEN InstallProxy(proxyMap, [dyn EXCEPT !.gone = @ \cup {id}, !.ncalls = @ + 1])
       ELSE InstallProxy(proxyMap \ {id},
                         [dyn EXCEPT !.call[id].pc = "build", !.ncalls = @ + 1])

\* newRouter := gin.New(), CreateRoutes, and a route for every entry ProxyMap.Range
\* visits.
DeregisterBuild(id) ==
    /\ ~dyn.panicked
    /\ dyn.call[id].pc = "build"
    /\ InstallProxy(proxyMap,
                    [dyn EXCEPT !.routers = Append(@, proxyMap),
                                !.call[id] = [pc |-> "assign",
                                              newRouter |-> Len(dyn.routers) + 1]])

\* s.Router = newRouter
DeregisterAssign(id) ==
    /\ ~dyn.panicked
    /\ dyn.call[id].pc = "assign"
    /\ InstallProxy(proxyMap,
                    [dyn EXCEPT !.Router = dyn.call[id].newRouter,
                                !.call[id].pc = "update"])

\* s.RouterSwitcher.UpdateRouter(newRouter), and the return.
UpdateRouter(id) ==
    /\ ~dyn.panicked
    /\ dyn.call[id].pc = "update"
    /\ InstallProxy(proxyMap,
                    [dyn EXCEPT !.current = dyn.call[id].newRouter,
                                !.call[id] = [pc |-> "idle", newRouter |-> 0],
                                !.gone = @ \cup {id}])

NextProxy ==
    \E id \in Ids :
       \/ RegisterStore(id)
       \/ RegisterAny(id)
       \/ DeregisterDelete(id)
       \/ DeregisterBuild(id)
       \/ DeregisterAssign(id)
       \/ UpdateRouter(id)

SpecProxy == InitProxy /\ [][NextProxy]_vars

\* ------------------------------------------------------- util.ExtractPort
\* A string is the sequence of its characters.  The functions of package strings
\* and strconv that ExtractPort uses:
HasPrefixAt(str, sub, i) ==
    /\ i + Len(sub) - 1 <= Len(str)
    /\ \A j \in 1..Len(sub) : str[i + j - 1] = sub[j]

\* strings.Contains(str, sub)
Contains(str, sub) == \E i \in 1..(Len(str) + 1) : HasPrefixAt(str, sub, i)

\* strings.Split(str, sep) for a separator of one character: the parts between the
\* separators, at least one part.
RECURSIVE Split(_, _)
Split(str, sep) ==
    LET at == {i \in 1..Len(str) : str[i] = sep} IN
      IF at = {} THEN <<str>>
      ELSE LET i == CHOOSE x \in at : \A y \in at : x <= y
           IN <<SubSeq(str, 1, i - 1)>> \o Split(SubSeq(str, i + 1, Len(str)), sep)

\* TrimPrefix left out: the string is taken as it is.
KeepPrefix(str, prefix) == str

\* strings.TrimPrefix(str, prefix)
TrimPrefix(str, prefix) ==
    IF HasPrefixAt(str, prefix, 1) THEN SubSeq(str, Len(prefix) + 1, Len(str)) ELSE str

WhiteSpace == {" ", "\t", "\n", "\r"}

\* strings.TrimSpace(str)
TrimSpace(str) ==
    LET ink == {i \in 1..Len(str) : str[i] \notin WhiteSpace} IN
      IF ink = {} THEN <<>>
      ELSE SubSeq(str, CHOOSE x \in ink : \A y \in ink : x <= y,
                       CHOOSE x \in ink : \A y \in ink : x >= y)

DecimalDigits == <<"0", "1", "2", "3", "4", "5", "6", "7", "8", "9">>

RECURSIVE DecimalValue(_)
DecimalValue(str) ==
    IF str = <<>> THEN 0
    ELSE 10 * DecimalValue(SubSeq(str, 1, Len(str) - 1))
           + (CHOOSE d \in 0..9 : DecimalDigits[d + 1] = str[Len(str)])

\* strconv.Atoi(str): an optional sign and one or more decimal digits; anything
\* else is an error.  (The texts here are far too short to overflow an int.)
Atoi(str) ==
    LET signed == str # <<>> /\ str[1] \in {"+", "-"}
        digits == IF signed THEN Tail(str) ELSE str
    IN IF digits # <<>> /\ \A i \in 1..Len(digits) : \E d \in 1..10 : DecimalDigits[d] = digits[i]
       THEN [ok |-> TRUE,
             port |-> IF signed /\ str[1] = "-" THEN 0 - DecimalValue(digits)
                      ELSE DecimalValue(digits)]
       ELSE [ok |-> FALSE, port |-> 0]

PortMarker == <<"P", "O", "R", "T", "=">>

\* The body of ExtractPort's loop for one line: the conversion it attempts and
\* whether it returns from it.
LinePort(line) ==
    IF Contains(line, PortMarker)
    THEN Atoi(TrimPrefix(Split(line, "=")[2], <<":">>))
    ELSE IF Contains(line, <<":">>)
    THEN LET parts == Split(line, ":") IN
           IF Len(parts) > 1 THEN Atoi(TrimSpace(parts[Len(parts)]))
           ELSE [ok |-> FALSE, port |-> 0]
    ELSE [ok |-> FALSE, port |-> 0]

\* ExtractPort's loop over the lines, and its return 0 after the loop.
RECURSIVE ExtractPortLines(_)
ExtractPortLines(lines) ==
    IF lines = <<>> THEN 0
    ELSE IF LinePort(Head(lines)).ok THEN LinePort(Head(lines)).port
    ELSE ExtractPortLines(Tail(lines))

\* util.ExtractPort(logs) on the text of the log buffer.
ExtractPortOfLogs(logs) == ExtractPortLines(Split(logs, "\n"))

\* The log lines the texts are made of.
LinePort8080 == <<"P", "O", "R", "T", "=", "8", "0", "8", "0">>
LinePortColon8080 == <<"P", "O", "R", "T", "=", ":", "8", "0", "8", "0">>
LineHost8080 == <<"h", "o", "s", "t", ":", "8", "0", "8", "0">>
LinePortAbc == <<"P", "O", "R", "T", "=", "a", "b", "c">>
LineNoBeacon == <<"r", "e", "a", "d", "y">>
LinePort80 == <<"P", "O", "R", "T", "=", "8", "0">>
LineSpaced80 == <<"a", "t", ":", " ", "8", "0", " ">>
LinePortHost8080 == <<"P", "O", "R", "T", "=", "a", ":", "8", "0", "8", "0">>
LineEmpty == <<>>

BeaconLines ==
    {LinePort8080, LinePortColon8080, LineHost8080, LinePortAbc, LineNoBeacon,
     LinePort80, LineSpaced80, LinePortHost8080, LineEmpty}

\* The text a program has written: its lines, joined by newlines.
RECURSIVE JoinLines(_)
JoinLines(lines) ==
    IF lines = <<>> THEN <<>>
    ELSE IF Len(lines) = 1 THEN lines[1]
    ELSE lines[1] \o <<"\n">> \o JoinLines(Tail(lines))

LogTexts ==
    {JoinLines(ls) : ls \in UNION {[1..n -> BeaconLines] : n \in 0..MaxLines}}

\* The scanner is about to call ExtractPort on the text of a log buffer.
InitBeacon ==
    /\ InitCommon
    /\ thr = [id \in Ids |-> [t \in Threads |-> NoThread]]
    /\ launch = NoLaunch
    /\ faults = 0
    /\ \E text \in LogTexts : beacon = [NoBeacon EXCEPT !.logs = text]

\* port := util.ExtractPort(runtimeData.Logs.String())
ExtractPortCall ==
    /\ ~beacon.called
    /\ beacon' = [beacon EXCEPT !.called = TRUE, !.port = ExtractPortOfLogs(beacon.logs)]
    /\ UNCHANGED <<registry, recs, activeRetries, proxyMap, router, thr, att, ctxDone, stop,
                   launch, faults, dyn>>

NextBeacon == ExtractPortCall

SpecBeacon == InitBeacon /\ [][NextBeacon]_vars

\* ================================================================ claims
States == {"initializing", "running", "error", "rebuilding", "stopped", "failed"}

HRFThreads == {t \in Threads : IsHRF(t)}

\* The HandleRuntimeFailure invocations for id that are past the test-and-set.
PastTestAndSet(id) == {t \in HRFThreads : thr[id][t].pc \notin {"idle", "start"}}

C2_RebuildCountBounded ==
    \A id \in Ids : \A r \in RecIx : recs[id][r].rebuildCount <= RetryLimit

\* A record whose count has reached the limit and on which HandleRuntimeFailure has
\* run once more.
C2_Witness ==
    \E id \in Ids : \E r \in RecIx :
        recs[id][r].rebuildCount = RetryLimit /\ recs[id][r].state = "failed"

\* C3: at no time are two HandleRuntimeFailure invocations for the same id both past
\* the test-and-set, so that concurrent invocations do the rebuild's work once.
C3_SingleFlight == \A id \in Ids : Cardinality(PastTestAndSet(id)) <= 1

\* One invocation awaits the corrected code while a second one has been started.
C3_Witness ==
    \E id \in Ids : \E t, u \in HRFThreads :
        thr[id][t].pc = "gpt" /\ thr[id][u].pc = "start"

\* C4 (as claimed): passedHealthCheck = true implies state is running, stopped or
\* failed.
C4_Original ==
    \A id \in Ids :
        Runtime(id).passedHealthCheck => Runtime(id).state \in {"running", "stopped", "failed"}

\* C5 (as claimed): once StopRuntime has returned with state stopped, no later step
\* changes the record's state or starts an evaluation for the id.
C5_Original ==
    [][\A id \in Ids :
         (stop[id].pc = "done" /\ Runtime(id).state = "stopped")
            => /\ Runtime(id)'.state = "stopped"
               /\ \A k \in Atts : att[id][k].ev = "unused" => att'[id][k].ev = "unused"]_vars

\* C6 (as claimed): once HandleRuntimeFailure has set state failed, no step other than
\* an administrative stop changes the state, and the id has no active route.
C6_Original ==
    [][\A id \in Ids :
         Runtime(id).state = "failed"
            => /\ Runtime(id)'.state = "failed" \/ stop'[id] # stop[id]
               /\ id \notin router']_vars

\* The evaluations of id that are in flight: EvalWithContext has started, has not
\* returned, and its context has not been cancelled (on cancellation it returns
\* without waiting for the program).
InFlight(id) ==
    {k \in Atts : att[id][k].ev \in {"running", "logged"} /\ ~att[id][k].cancelled}

\* C7 (as claimed): at most one evaluation is in flight per runtime id.
C7_Original == \A id \in Ids : Cardinality(InFlight(id)) <= 1

\* C8 (as claimed): when NewConcurrentExecution returns a winner, every other
\* candidate for which a runtime record has been created has state stopped or failed
\* and no active route.
C8_Original ==
    [][(launch.pc # "returned" /\ launch'.pc = "returned" /\ launch'.ret = "winner")
          => \A id \in Ids \ {launch'.winner} :
                registry'[id] # 0
                   => /\ Runtime(id)'.state \in {"stopped", "failed"}
                      /\ id \notin router']_vars

\* C9 (as claimed): when StopRuntime(id) returns, id has no active route.
C9_Original ==
    [][\A id \in Ids :
         (stop[id].pc = "drain" /\ stop'[id].pc = "done") => id \notin router']_vars

\* A failure of id other than a cancellation happens in this step.
FailureOf(id) ==
    /\ faults' = faults + 1
    /\ stop' = stop
    /\ thr'[id] # thr[id] \/ att'[id] # att[id]

\* C10 (as claimed): every failure other than cancellation leaves lastErrorMsg set on
\* the runtime's record and the Rebuild Controller at work or about to start.
C10_Original ==
    [][\A id \in Ids :
         FailureOf(id)
            => /\ registry'[id] # 0
               /\ Runtime(id)'.lastErrorMsg # ""
               /\ Runtime(id)'.state \in {"error", "failed"}
               /\ \E t \in HRFThreads : thr'[id][t].pc # "idle"]_vars

\* No goroutine that serves id is left: no NewExecution or HandleRuntimeFailure call is
\* in progress, every evaluation has returned and its handler has run, every scanner
\* and watchdog has ended, and no StopRuntime is in its sleep.  From such a state no
\* step of the supervisor reads or writes id's record again.
Quiescent(id) ==
    /\ \A t \in Threads : thr[id][t].pc = "idle"
    /\ \A k \in Atts : /\ att[id][k].ev \in {"unused", "handled"}
                       /\ att[id][k].sc \in {"idle", "done"}
                       /\ att[id][k].wd \in {"idle", "done"}
    /\ stop[id].pc # "drain"

\* C11 (as claimed): a runtime in state error does not stay there for ever; so while
\* its state is error some task that serves it is still at work.
C11_Original == \A id \in Ids : Runtime(id).state = "error" => ~Quiescent(id)

\* A port has been observed for the runtime: the scanner of an evaluation that is
\* still running has found the beacon and registered the route.
PortObserved(id) ==
    \E k \in Atts : /\ att[id][k].isRegistered
                    /\ att[id][k].ev \in {"running", "logged"}
                    /\ ~att[id][k].cancelled

\* C12 (as claimed): a watchdog takes its timeout action only when no port has been
\* observed for the runtime by its deadline.
C12_Original ==
    [][\A id \in Ids : \A k \in Atts :
         (att[id][k].wd = "sleep" /\ att'[id][k].wd = "drain") => ~PortObserved(id)]_vars

\* C13 (as claimed, for the scanner with its health check and for the watchdog): once
\* an attempt's context is cancelled, its watchdog does not start its timeout action,
\* and its scanner, asleep before the health check or awaiting its answer, updates no
\* record, registers no route and starts no HandleRuntimeFailure.
C13_Original ==
    [][\A id \in Ids : \A k \in Atts :
         att[id][k].cancelled
            => /\ att[id][k].wd = "sleep" => att'[id][k].wd # "drain"
               /\ (att[id][k].sc \in {"settle", "passed"} /\ att'[id][k].sc # att[id][k].sc)
                     => /\ recs' = recs
                        /\ registry' = registry
                        /\ router' = router
                        /\ thr'[id] = thr[id]]_vars

\* C14 (as claimed): the registry never shows state running for a runtime before a
\* port has been recorded for it (here: by any attempt, which the claim's "current
\* attempt" implies).
C14_Original == \A id \in Ids : Runtime(id).state = "running" => Runtime(id).port > 0

\* C15 (as claimed): whenever ExecuteRuntime starts an evaluation, the Code of the
\* record it evaluates has been accepted by the validator.
C15_Original ==
    [][\A id \in Ids : \A k \in Atts :
         (att[id][k].ev = "unused" /\ att'[id][k].ev = "running")
            => recs'[id][att'[id][k].rec].validated]_vars

\* C16 (as claimed, refuted): whatever the interleaving of Register and Deregister
\* calls, once they have all returned, an id whose Register has returned and which
\* has not been deregistered has an active route on the router published through
\* the switcher.
Registered(id) == id \in proxyMap /\ dyn.call[id].pc = "idle"

AllReturned == ~dyn.panicked /\ \A id \in Ids : dyn.call[id].pc = "idle"

C16_Original ==
    AllReturned => \A id \in Ids : Registered(id) => id \in router

\* C17 (as claimed, refuted): once Deregister(id) has returned, and until id is
\* registered again, the router published through the switcher has no route to
\* id's proxy.
C17_Original ==
    AllReturned => \A id \in dyn.gone : id \notin router

\* C18 (as claimed, refuted): at the step where the log scanner sets
\* passedHealthCheck = true on a record of an id, the proxy table has a route for
\* that id.
C18_Original ==
    [][\A id \in Ids : \A r \in RecIx :
         (~recs[id][r].passedHealthCheck /\ recs'[id][r].passedHealthCheck)
            => (id \in proxyMap /\ id \in router)]_vars

\* Some record of id has had PassedHealthCheck set by a log scanner.
Passed(id) == \E r \in RecIx : recs[id][r].passedHealthCheck

\* Every candidate goroutine of the launch has sent its result and ended.
CandidatesEnded == \A id \in Ids : thr[id][<<"new", 0>>].pc = "idle"

\* C19 (as claimed, refuted): when NewConcurrentExecution has returned a winner and
\* the candidate goroutines have ended, the winner is one candidate, its
\* passedHealthCheck has been set, and every other candidate whose passedHealthCheck
\* has been set has been stopped by the launcher as a loser.
C19_Original ==
    (launch.ret = "winner" /\ CandidatesEnded)
       => /\ launch.winner \in Ids
          /\ Passed(launch.winner)
          /\ \A id \in Ids \ {launch.winner} : Passed(id) => stop[id].pc = "done"

\* C20 (as claimed, refuted): at the step where NewConcurrentExecution returns an
\* error to its caller, no candidate has passed its health check.
C20_Original ==
    [][(launch.pc # "returned" /\ launch'.pc = "returned" /\ launch'.ret = "error")
          => \A id \in Ids : ~Passed(id)]_vars

\* The candidate goroutine of id is in waitForPassedHealthCheck and no round of its
\* select can return: the context is live, PassedHealthCheck is not set and the state
\* is neither error nor failed; and no other goroutine that serves id is left to
\* change that.
Blocked(id) ==
    /\ thr[id][<<"new", 0>>].pc = "wait"
    /\ WaitOutcomes(Runtime(id), ctxDone[id]) = {}
    /\ \A t \in Threads \ {<<"new", 0>>} : thr[id][t].pc = "idle"
    /\ \A k \in Atts : /\ att[id][k].ev \in {"unused", "handled"}
                       /\ att[id][k].sc \in {"idle", "done"}
                       /\ att[id][k].wd \in {"idle", "done"}
    /\ stop[id].pc # "drain"

\* C21 (as claimed, refuted): NewConcurrentExecution terminates, every candidate
\* delivering a result; so the launcher never waits on an empty results channel
\* while each candidate that has not delivered is blocked for good.
C21_Original ==
    ~(/\ launch.pc = "recv"
      /\ launch.results = <<>>
      /\ \E id \in Ids : Blocked(id)
      /\ \A id \in Ids : Blocked(id) \/ Quiescent(id))

\* C22: a HandleRuntimeFailure invocation that finds its context cancelled does no
\* work.  It never gets past the check (so no Shutdown, no LLM request, no
\* PrepareRuntime, no ExecuteRuntime); and the step in which a started goroutine
\* runs it leaves the records, the registry, the proxy table, the router, the
\* attempts and the single-flight flags as they were.
C22_NoWorkWhenCancelled ==
    [][\A id \in Ids : \A t \in HRFThreads :
         (ctxDone[id] /\ thr[id][t].pc \in {"idle", "start"})
            => /\ thr'[id][t].pc \in {"idle", "start"}
               /\ (thr[id][t].pc = "start" /\ thr'[id][t].pc = "idle")
                     => /\ recs' = recs /\ registry' = registry
                        /\ proxyMap' = proxyMap /\ router' = router
                        /\ att' = att /\ activeRetries' = activeRetries]_vars

\* A candidate's code failed validation, its context was cancelled before the
\* HandleRuntimeFailure goroutine ran, and that goroutine has run and returned: the
\* record still has rebuildCount 0 and the validator's error.
C22_Witness ==
    \E id \in Ids :
       /\ ctxDone[id]
       /\ registry[id] # 0
       /\ Runtime(id).lastErrorMsg = "code validation failed"
       /\ Runtime(id).state = "error"
       /\ Runtime(id).rebuildCount = 0
       /\ thr[id][<<"pr", registry[id]>>].pc = "idle"
       /\ id \notin activeRetries

\* The evaluation of attempt k of id returns in this step, and its deferred
\* completion handler runs.
Returns(id, k) == att[id][k].ev \in {"running", "logged"} /\ att'[id][k].ev = "handled"

\* C23 (as claimed, refuted): when an evaluation returns after its context was
\* cancelled, the completion handler does not set lastErrorMsg, does not set state
\* error and does not call HandleRuntimeFailure: it stores state finished and the
\* single-flight flags and the rebuild threads stay as they were.
C23_Original ==
    [][\A id \in Ids : \A k \in Atts :
         (Returns(id, k) /\ att[id][k].cancelled)
            => LET r == att[id][k].rec IN
                 /\ recs'[id][r].lastErrorMsg = recs[id][r].lastErrorMsg
                 /\ recs'[id][r].state = "finished"
                 /\ recs'[id][r].rebuildCount = recs[id][r].rebuildCount
                 /\ thr'[id][<<"ev", k>>].pc = "idle"]_vars

\* The lines of the text given to ExtractPort, in log order.
BeaconLog == Split(beacon.logs, "\n")

\* Line i is the first line of the text that yields an integer.
FirstYielding(i) ==
    /\ LinePort(BeaconLog[i]).ok
    /\ \A j \in 1..(i - 1) : ~LinePort(BeaconLog[j]).ok

\* The text after the last ':' of a line that has one, without surrounding blanks.
LastColonToken(line) ==
    LET at == {i \in 1..Len(line) : line[i] = ":"}
        last == CHOOSE x \in at : \A y \in at : x >= y
    IN TrimSpace(SubSeq(line, last + 1, Len(line)))

Text8080 == <<"8", "0", "8", "0">>

\* The cases of the port beacon that do not depend on the ':' tail: PORT=8080 and
\* PORT=:8080 give 8080 when no earlier line yields an integer; a text whose lines
\* are all PORT=abc or have neither PORT= nor ':' gives 0; and in general the value
\* is that of the first line that yields an integer, 0 when there is none.
BeaconCases ==
    /\ \A i \in 1..Len(BeaconLog) :
         (BeaconLog[i] \in {LinePort8080, LinePortColon8080}
             /\ \A j \in 1..(i - 1) : ~LinePort(BeaconLog[j]).ok)
            => beacon.port = 8080
    /\ (\A i \in 1..Len(BeaconLog) :
          \/ BeaconLog[i] = LinePortAbc
          \/ ~Contains(BeaconLog[i], PortMarker) /\ ~Contains(BeaconLog[i], <<":">>))
         => beacon.port = 0
    /\ \A i \in 1..Len(BeaconLog) :
         FirstYielding(i) => beacon.port = LinePort(BeaconLog[i]).port
    /\ (\A i \in 1..Len(BeaconLog) : ~LinePort(BeaconLog[i]).ok) => beacon.port = 0

Rebuilds(id, t) == thr[id][t].pc \in {"gpt", "exec"}

Exhausts(id, t) ==
    IsHRF(t) /\ thr[id][t].pc \in {"idle", "start"} /\ thr'[id][t].pc = "prep_gpt"

\* The steps of the PrepareRuntime call made by the retry-limit branch.
ExhaustedPrepares(id, t) ==
    IsHRF(t) /\ thr[id][t].pc \in {"prep_gpt", "prep_val"} /\ thr'[id][t] # thr[id][t]

\* The order of the retry-limit branch without the prompt: state failed and no route
\* before PrepareRuntime, ExecuteRuntime only after a successful validation, on the
\* same id.
ExhaustionOrder(id, t) ==
    /\ Exhausts(id, t) =>
          /\ Runtime(id)'.state = "failed"
          /\ id \notin proxyMap'
          /\ NumAtt(Shared, id)' = NumAtt(Shared, id)
    /\ ExhaustedPrepares(id, t) =>
          /\ NumAtt(Shared, id)' > NumAtt(Shared, id) =>
                /\ thr[id][t].pc = "prep_val"
                /\ recs'[id][thr[id][t].rec].validated
                /\ thr'[id][t] = NoThread

C27_Original ==
    [][\A id \in Ids :
          registry[id] # 0 /\ registry'[id] # 0 =>
              Runtime(id)'.rebuildCount >= Runtime(id).rebuildCount]_vars


\* A HandleRuntimeFailure invocation gets past its checks, on the way to a new
\* ExecuteRuntime: through a rebuild request or through PrepareRuntime.
Reenters(id, t) ==
    IsHRF(t) /\ thr[id][t].pc \in {"idle", "start"} /\ thr'[id][t].pc \in {"gpt", "prep_gpt"}

\* C28 Before a rebuild's new evaluation begins, on every path of HandleRuntimeFailure
\* that goes on to ExecuteRuntime, Shutdown() of the previous program has been invoked
\* and the id's route has been deregistered.
C28_Original ==
    [][\A id \in Ids : \A t \in Threads :
          Reenters(id, t) =>
              /\ recs'[id][thr'[id][t].rec].shutdown
              /\ id \notin proxyMap']_vars


\* The HandleRuntimeFailure invocations on id that have won the test-and-set and have
\* not returned: waiting for the rebuild answer, about to call ExecuteRuntime, or
\* inside the PrepareRuntime call of the retry-limit branch.
Holders(id) ==
    {t \in Threads : IsHRF(t) /\ thr[id][t].pc \in {"gpt", "exec", "prep_gpt", "prep_val"}}

\* A HandleRuntimeFailure goroutine runs while the flag of its id is set.
Loses(id, t) ==
    IsHRF(t) /\ thr[id][t].pc = "start" /\ id \in activeRetries /\ thr'[id][t] # thr[id][t]

\* C29 The single-flight flag of an id is set exactly while the one
\* HandleRuntimeFailure invocation that acquired it is executing (whatever its return
\* path, the flag is cleared with the return), and an invocation that finds the flag
\* set returns without clearing it and without changing the record.
C29_SingleFlight ==
    /\ [](\A id \in Ids : /\ id \in activeRetries <=> Holders(id) # {}
                          /\ Cardinality(Holders(id)) <= 1)
    /\ [][\A id \in Ids : \A t \in Threads :
             Loses(id, t) => /\ thr'[id][t] = NoThread
                             /\ UNCHANGED <<activeRetries, registry, recs, proxyMap>>]_vars

\* An invocation holds the flag of an id while a HandleRuntimeFailure goroutine for
\* the same id is about to run its test-and-set.
C29_Witness ==
    \E id \in Ids : \E t1, t2 \in Threads :
        /\ t1 \in Holders(id)
        /\ id \in activeRetries
        /\ IsHRF(t2)
        /\ thr[id][t2].pc = "start"


\* C30 Upon winning, NewConcurrentExecution cancels the context of every other
\* candidate and not the winner's: once a winner is chosen, and after the launcher has
\* returned it, the winner's context is not done.
C30_Original == launch.winner # 0 => ~ctxDone[launch.winner]


\* The first attempt of an id, on a record never rebuilt, has printed its beacon to
\* the record's buffer, and the buffer is empty again although the attempt's scanner,
\* still polling, has extracted no port: nothing is registered and the record has no
\* port.
BeaconLost(id, k) ==
    LET a == att[id][k] IN
    /\ NumAtt(Shared, id) = 1
    /\ a.ev = "logged"
    /\ a.rec # 0
    /\ recs[id][a.rec].gen = 1
    /\ a.sc = "top"
    /\ ~a.cancelled
    /\ ~a.isRegistered
    /\ recs[id][a.rec].logs = "empty"
    /\ recs[id][a.rec].port = 0

\* C31 The log scanner never discards a port beacon unparsed: a PORT=<n> line the
\* program appends while no port is registered is still in the buffer, or has been
\* extracted, whatever the interleaving of the write with the scanner's two reads and
\* its Reset.
C31_Original == \A id \in Ids : \A k \in Atts : ~BeaconLost(id, k)


\* The watchdog of attempt k takes a step of its timeout action: cancel() and
\* StopRuntime up to its sleep, or the rest of StopRuntime, the error and
\* HandleRuntimeFailure.
WatchdogActs(id, k) ==
    \/ att[id][k].wd = "sleep" /\ att'[id][k].wd = "drain"
    \/ att[id][k].wd = "drain" /\ att'[id][k].wd # "drain"

\* Attempt k2 is the current attempt of id and is healthy: the record holds its
\* cancel, its program is running, its scanner has registered the port and has come
\* back from a passed health check, the route is there and the state is running.
HealthyAttempt(id, k2) ==
    /\ Runtime(id).stopFunction = k2
    /\ att[id][k2].rec = registry[id]
    /\ att[id][k2].ev \in {"running", "logged"}
    /\ ~att[id][k2].cancelled
    /\ att[id][k2].isRegistered
    /\ att[id][k2].sc = "top"
    /\ Runtime(id).passedHealthCheck
    /\ Runtime(id).state = "running"
    /\ id \in proxyMap

\* C32 A watchdog acts only on the attempt that started it: while a later attempt of
\* the id is current and healthy, a step of an earlier attempt's watchdog does not
\* cancel it, remove its route or change the state of the runtime.
C32_Original ==
    [][\A id \in Ids : \A k, k2 \in Atts :
          k < k2 /\ HealthyAttempt(id, k2) /\ WatchdogActs(id, k) =>
              /\ ~att'[id][k2].cancelled
              /\ id \in proxyMap'
              /\ Runtime(id)'.state = "running"]_vars


\* NewConcurrentExecution returns an error to its caller in this step.
LaunchFails == launch.pc # "returned" /\ launch'.pc = "returned" /\ launch'.ret = "error"

\* C33 When NewConcurrentExecution returns an error, every candidate context has been
\* cancelled and no runtime of the launch has an evaluation in flight or an active
\* route (with its context cancelled, HandleRuntimeFailure can no longer rebuild it).
C33_Original ==
    [][LaunchFails =>
          \A id \in Ids : /\ ctxDone'[id]
                          /\ InFlight(id)' = {}
                          /\ id \notin router']_vars


\* C34 Once PrepareRuntime has stored a fresh record for an id, no task of an earlier
\* attempt stores the superseded record again: the registry entry of an id is always
\* the record prepared last for it.
C34_Original == \A id \in Ids : registry[id] = NumRec(Shared, id)

====
